---- MODULE Spec2Model ----
(***************************************************************************)
(* A model of the user entity of the portfolio backend:                    *)
(*   src/src/models/users.rs  UserModel, UserInformation, hash_pswd,       *)
(*                            verify_pswd_hash, create, find_by_pk, find   *)
(*   src/src/main.rs          the shared connection pool, one task per     *)
(*                            inbound request                              *)
(*                                                                         *)
(* Text is a sequence of one-character strings, so that trimming,          *)
(* quoting, splitting and replacing are computed character by character.   *)
(* An Option<String> is a record [some, v].                                *)
(***************************************************************************)
EXTENDS Integers, Sequences, FiniteSets, TLC

VARIABLES
    rows,    \* the rows of table user_information
    tasks,   \* one record per request task: its operation, locals, outcome
    cred,    \* a run of hash_pswd followed by verify_pswd_hash
    form     \* a run of UserInformation::validate

vars == <<rows, tasks, cred, form>>

----------------------------------------------------------------------------
(* Bounds *)

\* the number of concurrent request tasks
NumTasks == 3

\* the longest cleartext password tried against the hashing service
MaxPwLen == 2

----------------------------------------------------------------------------
(* Text and Option helpers *)

None == [some |-> FALSE, v |-> <<>>]

Some(x) == [some |-> TRUE, v |-> x]

\* Option::unwrap_or_default on an Option<String>
UnwrapOrDefault(o) == IF o.some THEN o.v ELSE <<>>

IsWhitespace(c) == c = " "

RECURSIVE TrimStart(_)
TrimStart(s) ==
    IF s = <<>> THEN <<>>
    ELSE IF IsWhitespace(Head(s)) THEN TrimStart(Tail(s))
    ELSE s

RECURSIVE TrimEnd(_)
TrimEnd(s) ==
    IF s = <<>> THEN <<>>
    ELSE IF IsWhitespace(s[Len(s)]) THEN TrimEnd(SubSeq(s, 1, Len(s) - 1))
    ELSE s

\* str::trim
Trim(s) == TrimEnd(TrimStart(s))

\* all texts over alphabet of length at most n
RECURSIVE TextsUpTo(_, _)
TextsUpTo(alphabet, n) ==
    IF n = 0 THEN {<<>>}
    ELSE LET shorter == TextsUpTo(alphabet, n - 1)
         IN  shorter \cup {Append(s, c) : s \in shorter, c \in alphabet}

----------------------------------------------------------------------------
(* Credential hashing: bcrypt::hash, bcrypt::verify, hash_pswd,            *)
(* verify_pswd_hash                                                        *)

\* bcrypt::DEFAULT_COST, as it is printed in a hash
DEFAULT_COST == "12"

\* the salts bcrypt::hash may draw
SaltNames == <<"s1", "s2", "s3", "s4", "s5", "s6", "s7", "s8", "s9">>

Salts == {SaltNames[i] : i \in 1..Len(SaltNames)}

\* bcrypt's output "$2b$<cost>$<salt><digest>"; the digest is an injective
\* function of salt and password (a collision-free one-way function)
BcryptHash(password, salt) ==
    <<"$", "2b", "$", DEFAULT_COST, "$", salt>> \o <<"#">> \o password

\* whether bcrypt can split a stored string into version, cost and salt
BcryptParses(hash) ==
    /\ Len(hash) >= 7
    /\ hash[1] = "$" /\ hash[2] = "2b" /\ hash[3] = "$"
    /\ hash[4] = DEFAULT_COST /\ hash[5] = "$"
    /\ hash[6] \in Salts
    /\ hash[7] = "#"

\* bcrypt::verify: Err(InvalidHash) on a string that is no hash, else
\* whether password hashes, under the salt of the stored hash, to that hash
BcryptVerify(password, hash) ==
    IF ~BcryptParses(hash) THEN [ok |-> FALSE, v |-> FALSE]
    ELSE [ok |-> TRUE, v |-> (BcryptHash(password, hash[6]) = hash)]

\* hash_pswd as it would be if the trimmed cleartext were bound unhashed
hash_pswd_plain(password, salt) ==
    IF ~password.some THEN [panic |-> TRUE, v |-> <<>>]
    ELSE [panic |-> FALSE, v |-> Trim(password.v)]

\* UserModel::hash_pswd: unwrap, trim, bcrypt::hash(.., DEFAULT_COST).unwrap()
hash_pswd(password, salt) ==
    IF ~password.some THEN [panic |-> TRUE, v |-> <<>>]
    ELSE [panic |-> FALSE, v |-> BcryptHash(Trim(password.v), salt)]

\* UserModel::verify_pswd_hash: self.password.unwrap(), then
\* bcrypt::verify(raw_password, stored).ok().unwrap()
verify_pswd_hash(stored_password, raw_password) ==
    IF ~stored_password.some THEN "panic"
    ELSE LET r == BcryptVerify(raw_password, stored_password.v)
         IN  IF ~r.ok THEN "panic"
             ELSE IF r.v THEN "true" ELSE "false"

\* cleartexts given to the hashing service
PwAlphabet == {" ", "a"}

Cleartexts == TextsUpTo(PwAlphabet, MaxPwLen)

\* password columns of a UserModel that no hash_pswd produced
CorruptHashes == {<<>>, <<"a">>, <<"$", "2b", "$">>}

CredIdle == [pc |-> "off", password |-> None, stored |-> None,
             raw |-> <<>>, ret |-> "none"]

CredInit ==
    cred \in {[pc |-> "start", password |-> p, stored |-> None,
               raw |-> <<>>, ret |-> "none"] :
              p \in {None} \cup {Some(c) : c \in Cleartexts}}

\* a call of UserModel::hash_pswd(password); the result becomes the
\* password of a UserModel
HashPswd ==
    /\ cred.pc = "start"
    /\ \E salt \in Salts :
        LET h == hash_pswd(cred.password, salt)
        IN  cred' = IF h.panic
                    THEN [cred EXCEPT !.pc = "panicked", !.ret = "panic"]
                    ELSE [cred EXCEPT !.pc = "hashed", !.stored = Some(h.v)]
    /\ UNCHANGED <<rows, tasks, form>>

\* a UserModel read from a row or deserialized, whose password column
\* holds no bcrypt hash
LoadUser ==
    /\ cred.pc = "start"
    /\ \E s \in {None} \cup {Some(c) : c \in CorruptHashes} :
        cred' = [cred EXCEPT !.pc = "loaded", !.stored = s]
    /\ UNCHANGED <<rows, tasks, form>>

\* a call of user.verify_pswd_hash(raw)
VerifyPswdHash ==
    /\ cred.pc \in {"hashed", "loaded"}
    /\ \E raw \in Cleartexts :
        cred' = [cred EXCEPT !.pc = IF cred.pc = "hashed" THEN "verified"
                                    ELSE "verified_loaded",
                             !.raw = raw,
                             !.ret = verify_pswd_hash(cred.stored, raw)]
    /\ UNCHANGED <<rows, tasks, form>>

----------------------------------------------------------------------------
(* Validation: #[derive(Validate)] on UserInformation                      *)

Letters == {"a", "b", "c", "e", "i", "l", "m", "o", "x"}

Digits == {"0", "1", "2", "3", "4", "5", "7", "8"}

\* the bound of #[validate(length(min = 1))] on the five name fields
NAME_MIN_LENGTH == 1

\* the bound of #[validate(length(min = 8))] on password
PASSWORD_MIN_LENGTH == 8

NameFields == {"firstname", "lastname", "middlename", "fullname", "username"}

\* the fields that carry #[validate(required, ..)]
RequiredFields == NameFields \cup {"email", "password"}

\* the position of the last c in s, 0 when there is none (rsplitn(2, c))
LastIndexOf(s, c) ==
    LET at == {i \in 1..Len(s) : s[i] = c}
    IN  IF at = {} THEN 0 ELSE CHOOSE i \in at : \A j \in at : j <= i

\* the domain part of an address: dot-separated labels, none empty,
\* of letters, digits and inner hyphens
DomainOk(d) ==
    /\ d # <<>>
    /\ \A i \in 1..Len(d) : d[i] \in Letters \cup Digits \cup {"-", "."}
    /\ d[1] \notin {"-", "."}
    /\ d[Len(d)] \notin {"-", "."}
    /\ \A i \in 1..(Len(d) - 1) :
        /\ d[i] = "." => d[i + 1] \notin {".", "-"}
        /\ d[i] = "-" => d[i + 1] # "."

\* validator's email rule: a non-empty user part, an "@", a domain
validate_email(s) ==
    LET at == LastIndexOf(s, "@")
    IN  /\ at > 1
        /\ \A i \in 1..(at - 1) : s[i] \in Letters \cup Digits \cup {".", "-", "_", "+"}
        /\ DomainOk(SubSeq(s, at + 1, Len(s)))

\* validator's url rule, Url::parse(..).is_ok(): a scheme (a letter, then
\* letters, digits, "+", "-", "."), then ":"
validate_url(s) ==
    \E i \in 2..Len(s) :
        /\ s[i] = ":"
        /\ s[1] \in Letters
        /\ \A j \in 1..(i - 1) : s[j] \in Letters \cup Digits \cup {"+", "-", "."}

\* validator's phone rule on an international number: "+", a country code
\* that does not start with 0, at most 15 digits in all
validate_phone(s) ==
    /\ Len(s) >= 2 /\ Len(s) <= 16
    /\ s[1] = "+"
    /\ s[2] # "0"
    /\ \A i \in 2..Len(s) : s[i] \in Digits

\* validator's length rule counts characters
validate_length(s, min) == Len(s) >= min

\* the required rule as it would be if the attribute were left out
RequiredRuleOff(field, value) == {}

\* #[validate(required)]: the violation of a field that is None
RequiredRule(field, value) ==
    IF value.some THEN {} ELSE {<<field, "required">>}

\* the length rule as it would be if an empty string counted as absent
LengthRuleSkipsEmpty(field, value, min) ==
    IF value.some /\ value.v # <<>> /\ ~validate_length(value.v, min)
    THEN {<<field, "length">>} ELSE {}

\* #[validate(length(min = ..))]: applies to a value that is present
LengthRule(field, value, min) ==
    IF value.some /\ ~validate_length(value.v, min)
    THEN {<<field, "length">>} ELSE {}

\* #[validate(email)], #[validate(url)], #[validate(phone)]
EmailRule(field, value) ==
    IF value.some /\ ~validate_email(value.v) THEN {<<field, "email">>} ELSE {}

UrlRule(field, value) ==
    IF value.some /\ ~validate_url(value.v) THEN {<<field, "url">>} ELSE {}

PhoneRule(field, value) ==
    IF value.some /\ ~validate_phone(value.v) THEN {<<field, "phone">>} ELSE {}

\* the violations the derived validate() collects, field by field
ValidationErrors(p) ==
    UNION {RequiredRule(f, p[f]) \cup LengthRule(f, p[f], NAME_MIN_LENGTH) :
           f \in NameFields}
    \cup RequiredRule("email", p.email) \cup EmailRule("email", p.email)
    \cup UrlRule("avatar", p.avatar)
    \cup PhoneRule("phone_number", p.phone_number)
    \cup RequiredRule("password", p.password)
    \cup LengthRule("password", p.password, PASSWORD_MIN_LENGTH)

\* UserInformation::validate: Ok(()) when no rule is violated
validate(p) ==
    LET errors == ValidationErrors(p)
    IN  [ok |-> errors = {}, errors |-> errors]

\* sample values, among them those of the tests of users.rs
GoodEmail == <<"e", "m", "a", "i", "l", "@", "e", ".", "m", "a", "i", "l">>

GoodPhone == <<"+", "1", "4", "1", "5", "2", "3", "7", "0", "8", "0", "0">>

GoodPassword == <<"8", "8", "8", "8", "8", "8", "8", "8">>

GoodUrl == <<"x", ":", "a">>

NameValues == {None, Some(<<>>), Some(<<"1">>)}

EmailValues == {None, Some(GoodEmail), Some(<<"e", "m">>), Some(<<"@", "e">>)}

PasswordValues == {None, Some(GoodPassword), Some(Tail(GoodPassword))}

AvatarValues == {None, Some(GoodUrl), Some(<<"x">>)}

PhoneValues == {None, Some(GoodPhone), Some(<<"1">>)}

\* UserInformation, the fields that carry a rule
Payloads ==
    [firstname : NameValues, lastname : NameValues, middlename : NameValues,
     fullname : NameValues, username : NameValues, email : EmailValues,
     avatar : AvatarValues, phone_number : PhoneValues,
     password : PasswordValues]

FormIdle == [pc |-> "off", ret |-> [ok |-> TRUE, errors |-> {}]]

FormInit ==
    form \in {[pc |-> "start", payload |-> p, ret |-> [ok |-> TRUE, errors |-> {}]] :
              p \in Payloads}

\* a call of payload.validate()
Validate ==
    /\ form.pc = "start"
    /\ form' = [form EXCEPT !.pc = "done", !.ret = validate(form.payload)]
    /\ UNCHANGED <<rows, tasks, cred>>

----------------------------------------------------------------------------
(* Storage: table user_information behind the shared pool                  *)

TaskIds == 1..NumTasks

HexDigits == {"0", "1", "2", "3", "4", "5", "6", "7", "8", "9", "f"}

DigitChar == <<"1", "2", "3", "4", "5", "6", "7", "8", "9">>

\* Uuid::new_v4() in the create of task t: an identity no other call draws
NewV4(t) == <<"0", DigitChar[t]>>

\* the salt bcrypt::hash draws in the create of task t: random, and so, like
\* the identity, one no other call draws
NewSalt(t) == SaltNames[t]

\* Uuid::parse_str: Ok on a text of hexadecimal digits, Err on any other
\* (the 32-digit length of a real identity is not modelled)
ParseUuid(s) ==
    [ok |-> (s # <<>> /\ \A i \in 1..Len(s) : s[i] \in HexDigits), v |-> s]

\* a row of user_information, its columns id, email, password;
\* a column is an Option, None being SQL NULL
NoRow == [id |-> <<>>, email |-> None, password |-> None]

\* SQL NULLIF(x, y): NULL when x = y, x otherwise (x = NULL is never true)
NullIf(x, y) ==
    IF x.some /\ y.some /\ x.v = y.v THEN None ELSE x

\* the unique index on email: NULLs never collide
EmailConflict(table, row) ==
    \E r \in table : r.email.some /\ row.email.some /\ r.email.v = row.email.v

\* the primary key on id
IdConflict(table, row) == \E r \in table : r.id = row.id

\* the INSERT as it would be without its ON CONFLICT clause: a colliding
\* email raises a unique violation
InsertRaisingOnConflict(table, params) ==
    LET row == [id |-> params.id,
                email |-> NullIf(Some(params.email), None),
                password |-> NullIf(Some(params.password), Some(<<>>))]
    IN  IF EmailConflict(table, row) \/ IdConflict(table, row)
        THEN [error |-> TRUE, table |-> table, returning |-> {}]
        ELSE [error |-> FALSE, table |-> table \cup {row}, returning |-> {row}]

\* the INSERT as it would be with NULLIF($8, '') for the email, as for the
\* other text columns: an absent email is stored as NULL, which the unique
\* index never finds in conflict
InsertNullingEmptyEmail(table, params) ==
    LET row == [id |-> params.id,
                email |-> NullIf(Some(params.email), Some(<<>>)),
                password |-> NullIf(Some(params.password), Some(<<>>))]
    IN  IF EmailConflict(table, row)
        THEN [error |-> FALSE, table |-> table, returning |-> {}]
        ELSE IF IdConflict(table, row)
        THEN [error |-> TRUE, table |-> table, returning |-> {}]
        ELSE [error |-> FALSE, table |-> table \cup {row}, returning |-> {row}]

\* INSERT INTO user_information (..) VALUES ($1, .., NULLIF($8, null), ..,
\* NULLIF($12, '')) ON CONFLICT (email) DO NOTHING RETURNING *
InsertOnConflictDoNothing(table, params) ==
    LET row == [id |-> params.id,
                email |-> NullIf(Some(params.email), None),
                password |-> NullIf(Some(params.password), Some(<<>>))]
    IN  IF EmailConflict(table, row)
        THEN [error |-> FALSE, table |-> table, returning |-> {}]
        ELSE IF IdConflict(table, row)
        THEN [error |-> TRUE, table |-> table, returning |-> {}]
        ELSE [error |-> FALSE, table |-> table \cup {row}, returning |-> {row}]

\* SELECT * FROM user_information WHERE id = $1
SelectByPk(table, id) == {r \in table : r.id = id}

\* fetch_one on the rows a statement returned: the first row, or
\* sqlx::Error::RowNotFound
FetchOne(returned) ==
    IF returned = {} THEN {[tag |-> "RowNotFound", row |-> NoRow]}
    ELSE {[tag |-> "Ok", row |-> r] : r \in returned}

DatabaseError == [tag |-> "Database", row |-> NoRow]

----------------------------------------------------------------------------
(* find: the query text built from the predicate payload                   *)

\* the opening of the query text; its first words are one piece, as find
\* never splits them
SelectPrefix ==
    <<"SELECT * FROM user_information ", "W", "H", "E", "R", "E", " ">>

\* serde_json's Display of a string value: quoted, with " and \ escaped
RECURSIVE JsonEscape(_)
JsonEscape(s) ==
    IF s = <<>> THEN <<>>
    ELSE (IF Head(s) \in {"\"", "\\"} THEN <<"\\", Head(s)>> ELSE <<Head(s)>>)
         \o JsonEscape(Tail(s))

JsonDisplay(value) == <<"\"">> \o JsonEscape(value) \o <<"\"">>

\* str::replace(from, to) on single characters
Replace(s, from, to) ==
    [i \in 1..Len(s) |-> IF s[i] = from THEN to ELSE s[i]]

\* the loop of find: "{key} = {value} AND " for every entry
RECURSIVE Predicates(_)
Predicates(entries) ==
    IF entries = <<>> THEN <<>>
    ELSE Head(entries).key \o <<" ", "=", " ">> \o JsonDisplay(Head(entries).value)
         \o <<" ", "A", "N", "D", " ">> \o Predicates(Tail(entries))

\* the text find sends: the prefix and the predicates, the last four
\* characters split off, every " replaced by '
FindQuery(entries) ==
    LET sql_query == SelectPrefix \o Predicates(entries)
        kept == SubSeq(sql_query, 1, Len(sql_query) - 4)
    IN  Replace(kept, "\"", "'")

----------------------------------------------------------------------------
(* How storage reads a query text                                          *)

\* the place of a string literal in the structure of a statement
Lit == "<lit>"

\* the scan of a statement: outside a literal a ' opens one; inside, '' is a
\* quote of the literal and a single ' closes it. Yields the structure (the
\* text with each literal replaced by Lit), the literals, and whether the
\* text ended outside a literal.
RECURSIVE LexFrom(_, _, _, _, _, _)
LexFrom(text, i, inLit, cur, skel, lits) ==
    IF i > Len(text)
    THEN [ok |-> ~inLit, skel |-> skel, lits |-> lits]
    ELSE IF ~inLit
    THEN IF text[i] = "'"
         THEN LexFrom(text, i + 1, TRUE, <<>>, Append(skel, Lit), lits)
         ELSE LexFrom(text, i + 1, FALSE, cur, Append(skel, text[i]), lits)
    ELSE IF text[i] = "'"
    THEN IF i + 1 <= Len(text) /\ text[i + 1] = "'"
         THEN LexFrom(text, i + 2, TRUE, Append(cur, "'"), skel, lits)
         ELSE LexFrom(text, i + 1, FALSE, <<>>, skel, Append(lits, cur))
    ELSE LexFrom(text, i + 1, TRUE, Append(cur, text[i]), skel, lits)

Lex(text) == LexFrom(text, 1, FALSE, <<>>, <<>>, <<>>)

\* the structure of a statement: its text apart from the data values
Structure(text) == Lex(text).skel

KId == <<"i", "d">>

KEmail == <<"e", "m", "a", "i", "l">>

KPassword == <<"p", "a", "s", "s", "w", "o", "r", "d">>

\* the columns of user_information the model keeps
Columns == {KId, KEmail, KPassword}

\* the value of a column of a row, as text
ColumnValue(r, key) ==
    IF key = KId THEN Some(r.id)
    ELSE IF key = KEmail THEN r.email
    ELSE r.password

IdentChars == Letters \cup {"d", "p", "r", "s", "w", "_"}

\* the length of the identifier s begins with
RECURSIVE IdentLen(_)
IdentLen(s) ==
    IF s = <<>> \/ Head(s) \notin IdentChars THEN 0 ELSE 1 + IdentLen(Tail(s))

StartsWith(s, p) == Len(s) >= Len(p) /\ SubSeq(s, 1, Len(p)) = p

Drop(s, n) == SubSeq(s, n + 1, Len(s))

\* reads "key = <literal> " and then either the end or "AND " and more of
\* the same; yields the keys, or not ok when the text is none of this
RECURSIVE ParseConjunction(_)
ParseConjunction(s) ==
    LET n == IdentLen(s)
        rest == Drop(s, n + 5)
    IN  IF n = 0 \/ ~StartsWith(Drop(s, n), <<" ", "=", " ", Lit, " ">>)
        THEN [ok |-> FALSE, keys |-> <<>>]
        ELSE IF rest = <<>> THEN [ok |-> TRUE, keys |-> <<SubSeq(s, 1, n)>>]
        ELSE IF ~StartsWith(rest, <<"A", "N", "D", " ">>)
        THEN [ok |-> FALSE, keys |-> <<>>]
        ELSE LET more == ParseConjunction(Drop(rest, 4))
             IN  [ok |-> more.ok, keys |-> <<SubSeq(s, 1, n)>> \o more.keys]

\* reads the structure of a statement as SELECT * FROM user_information
\* WHERE key = literal AND ..
ParseSelect(skel) ==
    IF ~StartsWith(skel, SelectPrefix) THEN [ok |-> FALSE, keys |-> <<>>]
    ELSE ParseConjunction(Drop(skel, Len(SelectPrefix)))

\* what fetch_one(text) may return. A text with an unclosed literal is
\* refused. A conjunction of column = literal is evaluated on the table,
\* and refused when it names no column or compares id with no identity.
\* Any other text is a statement of another meaning, or none: its answer is
\* not determined here.
QueryResults(table, text) ==
    LET lex == Lex(text)
        parsed == ParseSelect(lex.skel)
        ks == parsed.keys
    IN  IF ~lex.ok THEN {DatabaseError}
        ELSE IF ~parsed.ok
        THEN {DatabaseError} \cup FetchOne({}) \cup FetchOne(table)
        ELSE IF \E i \in 1..Len(ks) :
                    \/ ks[i] \notin Columns
                    \/ ks[i] = KId /\ ~ParseUuid(lex.lits[i]).ok
        THEN {DatabaseError}
        ELSE FetchOne({r \in table : \A i \in 1..Len(ks) :
                          /\ ColumnValue(r, ks[i]).some
                          /\ ColumnValue(r, ks[i]).v = lex.lits[i]})

----------------------------------------------------------------------------
(* Request tasks: each inbound request runs one operation of UserModel     *)
(* against the pool; the single statement it awaits is atomic in storage   *)

NoParams == [id |-> <<>>, email |-> <<>>, password |-> <<>>]

NoFields == [email |-> None, password |-> None]

NoPayload == [is_object |-> TRUE, entries |-> <<>>]

NoOutcome == [tag |-> "none", row |-> NoRow]

IdleTask ==
    [pc |-> "idle", op |-> "none", fields |-> NoFields, id |-> <<>>,
     payload |-> NoPayload, params |-> NoParams, text |-> <<>>,
     sent |-> FALSE, outcome |-> NoOutcome]

\* attributes handed to create: the email and the cleartext password
CreateInputs ==
    [email : {None, Some(<<"a">>), Some(<<" ", "a">>)},
     password : {None, Some(<<"a">>)}]

\* identities handed to find_by_pk: no identity, the one of task 1, another
IdInputs == {<<"z">>, NewV4(1), <<"f", "f">>}

KRole == <<"r", "o", "l", "e">>

Entry(k, v) == [key |-> k, value |-> v]

\* predicate payloads handed to find: a JSON value that is no object, the
\* empty object, and objects whose entries come in key order
FindPayloads ==
    {[is_object |-> FALSE, entries |-> <<>>], NoPayload}
    \cup {[is_object |-> TRUE, entries |-> <<Entry(KEmail, v)>>] :
          v \in {<<"a">>, <<"'">>, <<"'", " ", "O", "R", " ", "'", "1">>}}
    \cup {[is_object |-> TRUE, entries |-> <<Entry(KRole, <<"a">>)>>],
          [is_object |-> TRUE,
           entries |-> <<Entry(KEmail, <<"a">>), Entry(KId, NewV4(1))>>]}

Init ==
    /\ rows = {}
    /\ tasks = [t \in TaskIds |-> IdleTask]
    /\ cred = CredIdle
    /\ form = FormIdle

\* create up to its await: destructure, Uuid::new_v4, hash_pswd (which
\* panics on None), bind
CreateCall(t) ==
    /\ tasks[t].pc = "idle"
    /\ \E fields \in CreateInputs :
        LET hashed_password == hash_pswd(fields.password, NewSalt(t))
        IN  tasks' = [tasks EXCEPT ![t] =
                IF hashed_password.panic
                THEN [@ EXCEPT !.pc = "panicked", !.op = "create",
                               !.fields = fields]
                ELSE [@ EXCEPT !.pc = "awaiting", !.op = "create",
                               !.fields = fields,
                               !.params = [id |-> NewV4(t),
                                           email |-> Trim(UnwrapOrDefault(fields.email)),
                                           password |-> hashed_password.v]]]
    /\ UNCHANGED <<rows, cred, form>>

\* the INSERT of create runs in storage; fetch_one yields its outcome
CreateExec(t) ==
    /\ tasks[t].pc = "awaiting" /\ tasks[t].op = "create"
    /\ LET done == InsertOnConflictDoNothing(rows, tasks[t].params)
       IN  /\ rows' = done.table
           /\ \E outcome \in (IF done.error THEN {DatabaseError}
                              ELSE FetchOne(done.returning)) :
                tasks' = [tasks EXCEPT ![t] =
                    [@ EXCEPT !.pc = "done", !.sent = TRUE, !.outcome = outcome]]
    /\ UNCHANGED <<cred, form>>

\* find_by_pk up to its await: Uuid::parse_str(id).unwrap(), bind
FindByPkCall(t) ==
    /\ tasks[t].pc = "idle"
    /\ \E id \in IdInputs :
        tasks' = [tasks EXCEPT ![t] =
            IF ~ParseUuid(id).ok
            THEN [@ EXCEPT !.pc = "panicked", !.op = "find_by_pk", !.id = id]
            ELSE [@ EXCEPT !.pc = "awaiting", !.op = "find_by_pk", !.id = id,
                           !.params = [NoParams EXCEPT !.id = ParseUuid(id).v]]]
    /\ UNCHANGED <<rows, cred, form>>

\* the SELECT of find_by_pk runs in storage
FindByPkExec(t) ==
    /\ tasks[t].pc = "awaiting" /\ tasks[t].op = "find_by_pk"
    /\ \E outcome \in FetchOne(SelectByPk(rows, tasks[t].params.id)) :
        tasks' = [tasks EXCEPT ![t] =
            [@ EXCEPT !.pc = "done", !.sent = TRUE, !.outcome = outcome]]
    /\ UNCHANGED <<rows, cred, form>>

\* find up to its await: fields.as_object().unwrap(), build the text
FindCall(t) ==
    /\ tasks[t].pc = "idle"
    /\ \E payload \in FindPayloads :
        tasks' = [tasks EXCEPT ![t] =
            IF ~payload.is_object
            THEN [@ EXCEPT !.pc = "panicked", !.op = "find", !.payload = payload]
            ELSE [@ EXCEPT !.pc = "awaiting", !.op = "find", !.payload = payload,
                           !.text = FindQuery(payload.entries)]]
    /\ UNCHANGED <<rows, cred, form>>

\* the text of find runs in storage
FindExec(t) ==
    /\ tasks[t].pc = "awaiting" /\ tasks[t].op = "find"
    /\ \E outcome \in QueryResults(rows, tasks[t].text) :
        tasks' = [tasks EXCEPT ![t] =
            [@ EXCEPT !.pc = "done", !.sent = TRUE, !.outcome = outcome]]
    /\ UNCHANGED <<rows, cred, form>>

Next ==
    \E t \in TaskIds :
        \/ CreateCall(t)
        \/ CreateExec(t)
        \/ FindByPkCall(t)
        \/ FindByPkExec(t)
        \/ FindCall(t)
        \/ FindExec(t)

Spec == Init /\ [][Next]_vars

\* the hashing service alone
InitPswd ==
    /\ rows = {}
    /\ tasks = [t \in TaskIds |-> IdleTask]
    /\ CredInit
    /\ form = FormIdle

NextPswd == HashPswd \/ LoadUser \/ VerifyPswdHash

SpecPswd == InitPswd /\ [][NextPswd]_vars

\* validation alone
InitValidate ==
    /\ rows = {}
    /\ tasks = [t \in TaskIds |-> IdleTask]
    /\ cred = CredIdle
    /\ FormInit

NextValidate == Validate

SpecValidate == InitValidate /\ [][NextValidate]_vars

----------------------------------------------------------------------------
(* Serialization: #[derive(Serialize)] with #[serde(skip_serializing)]     *)

\* the fields of UserModel marked #[serde(skip_serializing)]
UserModelSkipped == {"password", "otp_id"}

\* the fields of UserInformation marked #[serde(skip_serializing)]
UserInformationSkipped == {"password"}

\* the serialized representation of a UserModel
SerializeUserModel(u) == [f \in (DOMAIN u) \ UserModelSkipped |-> u[f]]

\* the serialized representation of a UserInformation
SerializeUserInformation(u) ==
    [f \in (DOMAIN u) \ UserInformationSkipped |-> u[f]]

----------------------------------------------------------------------------
(* Claims *)

IsCreate(t) == tasks[t].op = "create"

\* the creates that reached their INSERT with email e bound
CreatesOf(e) ==
    {t \in TaskIds : IsCreate(t) /\ tasks[t].pc \in {"awaiting", "done"}
                     /\ tasks[t].params.email = e}

EmailStored(table, e) == \E r \in table : r.email = Some(e)

\* C1: when the INSERT of a create runs with an email that a stored row
\* already has, the table is left as it was and the create yields
\* RowNotFound, not a database error; when the email is new, a row is added
\* and the create yields Ok with that row, so the two outcomes differ.
\* (The email is the one create binds, trimmed; a create given no password
\* panics in hash_pswd before it reaches storage.)
C1_ConflictIsNoRow ==
    [][\A t \in TaskIds :
        (IsCreate(t) /\ tasks[t].pc = "awaiting" /\ tasks'[t].pc = "done") =>
            IF EmailStored(rows, tasks[t].params.email)
            THEN /\ rows' = rows
                 /\ tasks'[t].outcome.tag = "RowNotFound"
            ELSE /\ rows' # rows
                 /\ tasks'[t].outcome.tag = "Ok"
                 /\ tasks'[t].outcome.row \in rows'
                 /\ tasks'[t].outcome.tag # "RowNotFound"]_vars

\* a create came back with no row while another row holds its email
C1_Witness ==
    \E t \in TaskIds :
        /\ IsCreate(t) /\ tasks[t].pc = "done"
        /\ tasks[t].outcome.tag = "RowNotFound"
        /\ \E r \in rows : r.email = Some(tasks[t].params.email)
                           /\ r.id # tasks[t].params.id

\* C2: in every interleaving of the request tasks no two rows have the
\* same email, and among the creates that bound the same email, once one
\* of them has finished, exactly one has got a row and every other
\* finished one has got RowNotFound.
C2_UniqueEmailOneWinner ==
    /\ \A r1, r2 \in rows : r1.email = r2.email => r1 = r2
    /\ \A t \in TaskIds :
        (IsCreate(t) /\ tasks[t].pc = "done") =>
            LET group == CreatesOf(tasks[t].params.email)
                winners == {u \in group : tasks[u].pc = "done"
                                          /\ tasks[u].outcome.tag = "Ok"}
            IN  /\ Cardinality(winners) = 1
                /\ \A u \in group \ winners :
                    tasks[u].pc = "done" => tasks[u].outcome.tag = "RowNotFound"

\* three creates of the same email were in flight together: one has got
\* the row, one has got no row, one still awaits its INSERT
C2_Witness ==
    \E t1, t2, t3 \in TaskIds :
        /\ IsCreate(t1) /\ IsCreate(t2) /\ IsCreate(t3)
        /\ tasks[t1].pc = "done" /\ tasks[t1].outcome.tag = "Ok"
        /\ tasks[t2].pc = "done" /\ tasks[t2].outcome.tag = "RowNotFound"
        /\ tasks[t3].pc = "awaiting"
        /\ tasks[t2].params.email = tasks[t1].params.email
        /\ tasks[t3].params.email = tasks[t1].params.email

IsFindByPk(t) == tasks[t].op = "find_by_pk"

\* C3 as claimed: find_by_pk given a malformed identity ends with an
\* InvalidIdentity failure, without panicking and without a statement sent;
\* given a well-formed identity no row has, it ends with RowNotFound.
C3_InvalidIdentityRejected ==
    \A t \in TaskIds :
        IsFindByPk(t) =>
            IF ~ParseUuid(tasks[t].id).ok
            THEN /\ tasks[t].pc = "done"
                 /\ tasks[t].outcome.tag = "InvalidIdentity"
                 /\ ~tasks[t].sent
            ELSE (tasks[t].pc = "done" /\ SelectByPk(rows, tasks[t].id) = {})
                    => tasks[t].outcome.tag = "RowNotFound"

IsFind(t) == tasks[t].op = "find" /\ tasks[t].payload.is_object

Keys(entries) == [i \in 1..Len(entries) |-> entries[i].key]

Values(entries) == [i \in 1..Len(entries) |-> entries[i].value]

HasUnknownKey(entries) == \E i \in 1..Len(entries) : entries[i].key \notin Columns

\* C4 as claimed: find given a payload with a key that is no column of the
\* table sends no statement and ends with a client error.
C4_UnknownKeyRejected ==
    \A t \in TaskIds :
        (IsFind(t) /\ HasUnknownKey(tasks[t].payload.entries)) =>
            /\ ~tasks[t].sent
            /\ tasks[t].pc = "done" => tasks[t].outcome.tag = "ClientError"

\* C5 as claimed: two finds given the same keys send statements of the same
\* structure whatever the values are, and storage reads each value as one
\* literal.
C5_StructureIndependentOfValues ==
    \A t1, t2 \in TaskIds :
        (/\ IsFind(t1) /\ IsFind(t2)
         /\ tasks[t1].pc \in {"awaiting", "done"}
         /\ tasks[t2].pc \in {"awaiting", "done"}
         /\ Keys(tasks[t1].payload.entries) = Keys(tasks[t2].payload.entries)) =>
            /\ Structure(tasks[t1].text) = Structure(tasks[t2].text)
            /\ Lex(tasks[t1].text).ok
            /\ Lex(tasks[t1].text).lits = Values(tasks[t1].payload.entries)

\* C6 as claimed: verifying a non-empty cleartext p against hash_pswd(Some(p))
\* returns true, also when p begins or ends with whitespace.
C6_HashThenVerify ==
    (/\ cred.pc = "verified"
     /\ cred.password.some /\ cred.password.v # <<>>
     /\ cred.raw = cred.password.v) => cred.ret = "true"

\* C7 as claimed: verify_pswd_hash on a user whose stored password is no
\* valid hash returns false.
C7_CorruptHashIsFalse ==
    (cred.pc = "verified_loaded" /\ cred.stored.some) => cred.ret = "false"

\* C8: the row a create inserts never holds, as its password, the cleartext
\* that create was given, and neither the serialized form of a stored user
\* nor that of an attributes payload has a password field.
C8_NoCleartextStoredOrSerialized ==
    /\ \A t \in TaskIds : \A r \in rows :
        (IsCreate(t) /\ r.id = tasks[t].params.id) =>
            r.password # Some(tasks[t].fields.password.v)
    /\ \A t \in TaskIds :
        (IsCreate(t) /\ tasks[t].pc = "done" /\ tasks[t].outcome.tag = "Ok") =>
            /\ tasks[t].outcome.row.password # Some(tasks[t].fields.password.v)
            /\ "password" \notin DOMAIN SerializeUserModel(tasks[t].outcome.row)
    /\ \A r \in rows : "password" \notin DOMAIN SerializeUserModel(r)
    /\ \A t \in TaskIds :
        "password" \notin DOMAIN SerializeUserInformation(tasks[t].fields)

\* a create has inserted a row whose password is a bcrypt hash
C8_Witness ==
    \E t \in TaskIds :
        /\ IsCreate(t) /\ tasks[t].pc = "done" /\ tasks[t].outcome.tag = "Ok"
        /\ tasks[t].outcome.row \in rows
        /\ tasks[t].fields.password.some
        /\ BcryptParses(tasks[t].outcome.row.password.v)

\* what C9 calls a payload with every required field present and every
\* present constrained field well formed
WellFormed(p) ==
    /\ \A f \in RequiredFields : p[f].some
    /\ \A f \in NameFields : p[f].some => Len(p[f].v) >= 1
    /\ p.password.some => Len(p.password.v) >= 8
    /\ p.email.some => validate_email(p.email.v)
    /\ p.avatar.some => validate_url(p.avatar.v)
    /\ p.phone_number.some => validate_phone(p.phone_number.v)

EmptyNamesPayload ==
    [firstname |-> Some(<<>>), lastname |-> Some(<<>>),
     middlename |-> Some(<<>>), fullname |-> Some(<<>>),
     username |-> Some(<<>>), email |-> Some(GoodEmail), avatar |-> None,
     phone_number |-> Some(GoodPhone), password |-> Some(GoodPassword)]

====
